---- MODULE Spec2Model ----
(***************************************************************************)
(* A model of the chat orchestration layer of sec-insights:                *)
(*   backend/app/chat/messaging.py  ChatCallbackHandler, handle_chat_message*)
(*   backend/app/chat/engine.py     get_storage_context,                    *)
(*                                  build_doc_id_to_index_map,              *)
(*                                  get_chat_history                        *)
(*                                                                         *)
(* The specifications of the module:                                       *)
(*   Spec             one chat turn: handle_chat_message, the event tasks   *)
(*                    spawned by on_event_start / on_event_end, the anyio   *)
(*                    memory object stream between them and the consumer,   *)
(*                    and the asyncio ready queue that schedules them.      *)
(*   SpecStream       a turn in which the pipeline reports no events.       *)
(*   SpecEvents       a turn with events and "a" as the only token.         *)
(*   FairSpecEvents   the turn of SpecEvents under fair scheduling of the   *)
(*                    tasks.                                                *)
(*   SpecBuildTurn    a turn whose engine is built by                       *)
(*                    build_doc_id_to_index_map over the persisted store.   *)
(*   SpecMetadata     get_metadata_from_event and the record built from it. *)
(*   SpecHistory      get_chat_history on bounded message lists.            *)
(*   SpecIndex        calls of build_doc_id_to_index_map against the        *)
(*                    persisted store and the TTL-cached storage context.   *)
(***************************************************************************)
EXTENDS Integers, Sequences, FiniteSets, TLC

(***************************************************************************)
(* Bounds of the model.                                                    *)
(***************************************************************************)
\* Capacity of the memory object stream (max_buffer_size, chosen by the caller).
MaxBuffer == 1
\* Most tokens the agent's generator yields in one turn.
MaxTokens == 2
\* Most lifecycle callbacks (on_event_start, on_event_end) the pipeline makes
\* in one turn.
MaxCallbacks == 2
\* Most callbacks the build of the engine makes.
MaxBuildCallbacks == 1
\* Most tokens the generator yields in the turns of SpecEvents.
MaxEventTokens == 1
\* Most source nodes of a response object.
MaxNodes == 2
\* Longest message list given to get_chat_history, and the latest created_at.
MaxMsgs == 2
MaxStamp == 2
\* Document ids, the longest document list of a conversation, the number of
\* calls of build_doc_id_to_index_map and the last instant of the clock (s).
MaxDocId == 2
MaxDocs == 2
MaxCalls == 2
MaxClock == 600

VARIABLES
    \* ---- the anyio memory object stream behind send_chan --------------
    buffer,           \* MemoryObjectStreamState.buffer
    waiting_senders,  \* MemoryObjectStreamState.waiting_senders, in order
    waiting_receivers,\* the number of MemoryObjectStreamState.waiting_receivers
    consumer,         \* the consumer's task: "busy" (running its own code),
                      \* "waiting" (in receive), "woken", "cancelled", "closed"
    receiver_item,    \* MemoryObjectItemReceiver.item of the consumer's receiver
    send_closed,      \* send_chan._closed
    recv_closed,      \* the receive end is closed (no open receive channels)
    \* ---- the asyncio event loop ---------------------------------------
    ready,            \* the loop's FIFO queue of tasks ready to run
    pc,               \* each task's position
    pending,          \* the item each task is sending
    err,              \* the exception that ended each task ("none": none)
    \* ---- handle_chat_message ------------------------------------------
    response_str,     \* the accumulator of line 191
    text,             \* the token the generator has just yielded
    exhausted,        \* the generator has raised StopAsyncIteration
    \* ---- the pipeline and its callbacks -------------------------------
    ev,               \* per event id: "idle", "started", "ended"
    task_event_type,  \* the event type each event task was created with
    payload,          \* the payload each event task was created with
    \* ---- history variables --------------------------------------------
    yielded,          \* the tokens the generator has yielded, in order
    sent_log,         \* the items the stream accepted from its senders, in order
    delivered,        \* the items the consumer received, in order
    closed_mid_stream,\* the stream was closed from outside during the token loop
    \* ---- get_chat_history ---------------------------------------------
    chat_messages,    \* the argument
    kept_messages,    \* the local chat_messages after lines 185-191
    chat_history,     \* the value returned
    history_called,   \* get_chat_history has run on chat_messages
    \* ---- build_doc_id_to_index_map and its storage --------------------
    now,              \* the clock of the TTL cache, in seconds
    cache,            \* the TTLCache of get_storage_context (one constant key)
    persisted,        \* what is stored under persist_dir
    recent_ctx,       \* StorageContext constructions of the last 5 minutes
    calls,            \* calls of build_doc_id_to_index_map so far
    documents,        \* the documents of the last call
    result,           \* the outcome of the last call
    tools,            \* the tool lists get_chat_engine built in the last call
    \* ---- get_metadata_from_event and the record of async_on_event -----
    md_args,          \* the arguments: event_type, payload, is_start_event
    md_result,        \* what get_metadata_from_event returned or raised
    md_record         \* the StreamedMessageSubProcess of lines 145-150

chanVars == <<buffer, waiting_senders, waiting_receivers, consumer, receiver_item,
             send_closed, recv_closed>>
loopVars == <<ready, pc, pending, err>>
hcmVars  == <<response_str, text, exhausted>>
pipeVars == <<ev, task_event_type, payload>>
histVars == <<yielded, sent_log, delivered, closed_mid_stream>>
turnVars == <<chanVars, loopVars, hcmVars, pipeVars, histVars>>
historyVars == <<chat_messages, kept_messages, chat_history, history_called>>
metaVars == <<md_args, md_result, md_record>>
indexVars == <<now, cache, persisted, recent_ctx, calls, documents, result, tools>>

(***************************************************************************)
(* Tasks.  Task 0 runs handle_chat_message; on_event_start(e) creates task  *)
(* 2e-1 and on_event_end(e) creates task 2e (asyncio.create_task).          *)
(***************************************************************************)
HCM == 0
\* The task of the consumer of the stream.
CONSUMER == -1
EventIds == 1 .. ((MaxCallbacks + 1) \div 2)
StartTask(e) == 2 * e - 1
EndTask(e) == 2 * e
EventTasks == 1 .. 2 * ((MaxCallbacks + 1) \div 2)
Tasks == {HCM} \cup EventTasks
TaskEvent(t) == (t + 1) \div 2
TaskIsStart(t) == t % 2 = 1

(***************************************************************************)
(* Strings are sequences of Unicode code points.                           *)
(***************************************************************************)
\* The code points of the characters the model writes by name.
Char ==
    [tab |-> 9, ff |-> 12, space |-> 32, plus |-> 43, minus |-> 45,
     underscore |-> 95, a |-> 97, b |-> 98, i |-> 105, v |-> 118,
     x |-> 120, y |-> 121,
     d1 |-> 49, d2 |-> 50, d3 |-> 51,
     fs |-> 28, nbsp |-> 160, arabic3 |-> 1635]
\* The characters str.strip() removes: those for which str.isspace() holds.
\* U+0009..U+000D, U+001C..U+001F, U+0020, U+0085, U+00A0, U+1680,
\* U+2000..U+200A, U+2028, U+2029, U+202F, U+205F, U+3000.
Whitespace ==
    (9 .. 13) \cup (28 .. 32) \cup {133, 160, 5760} \cup (8192 .. 8202)
      \cup {8232, 8233, 8239, 8287, 12288}
\* str.strip(): leading and trailing whitespace removed.
RECURSIVE LStrip(_)
LStrip(s) == IF s # << >> /\ Head(s) \in Whitespace THEN LStrip(Tail(s)) ELSE s
RECURSIVE RStrip(_)
RStrip(s) ==
    IF s # << >> /\ s[Len(s)] \in Whitespace
    THEN RStrip(SubSeq(s, 1, Len(s) - 1)) ELSE s
Strip(s) == RStrip(LStrip(s))
\* Line 201: response_str.strip() == ""
ResponseIsEmpty(s) == s = << >>
ResponseIsBlank(s) == Strip(s) = << >>
\* Line 193: response_str += text
AccumulateDelta(acc, tok) == tok
Accumulate(acc, tok) == acc \o tok
\* The tokens the model's generator may yield: "", " ", a form feed and "a".
TokenSet == {<< >>, <<Char.space>>, <<Char.ff>>, <<Char.a>>}
\* "Sorry, I either wasn't able to understand your question or I don't have an
\* answer for it."
FallbackText ==
    <<
      83, 111, 114, 114, 121, 44, 32, 73, 32, 101, 105, 116, 104, 101, 114, 32,
      119, 97, 115, 110, 39, 116, 32, 97, 98, 108, 101, 32, 116, 111, 32, 117,
      110, 100, 101, 114, 115, 116, 97, 110, 100, 32, 121, 111, 117, 114, 32, 113,
      117, 101, 115, 116, 105, 111, 110, 32, 111, 114, 32, 73, 32, 100, 111, 110,
      39, 116, 32, 104, 97, 118, 101, 32, 97, 110, 32, 97, 110, 115, 119, 101,
      114, 32, 102, 111, 114, 32, 105, 116, 46
    >>

RECURSIVE Concat(_)
Concat(toks) == IF toks = << >> THEN << >> ELSE Head(toks) \o Concat(Tail(toks))

(***************************************************************************)
(* Items on the stream.  site is a history field: the send site.           *)
(***************************************************************************)
\* The metadata map: a dict with at most one key.  key "" is the empty dict;
\* under "sub_questions" the value is a list of entries, under "sub_question"
\* it is the single entry (held here as a list of one).
EmptyMetadata == [key |-> "", value |-> << >>]
NoneMetadata == [key |-> "None", value |-> << >>]
StreamedMessage(content, where) ==
    [kind |-> "StreamedMessage", content |-> content, source |-> "",
     has_ended |-> FALSE, event_id |-> -1, metadata_map |-> NoneMetadata,
     site |-> where]
StreamedMessageSubProcess(source, has_ended, event_id, metadata_map, where) ==
    [kind |-> "StreamedMessageSubProcess", content |-> << >>, source |-> source,
     has_ended |-> has_ended, event_id |-> event_id,
     metadata_map |-> metadata_map, site |-> where]
NoItem == StreamedMessage(<< >>, "none")
\* The marker of lines 175-181; its uuid4 event id is modelled as 0, which no
\* pipeline event uses.
Marker == StreamedMessageSubProcess("CONSTRUCTED_QUERY_ENGINE", TRUE, 0, NoneMetadata, "marker")

(***************************************************************************)
(* get_metadata_from_event (messaging.py, lines 71-122)                    *)
(***************************************************************************)
EventTypes == {"SUB_QUESTION", "FUNCTION_CALL", "QUERY"}
PlaceholderQuestion == "What are the main business focus areas?"

\* node.node.text[:200]
TextLimit == 200
\* The most digits int() converts (sys.get_int_max_str_digits(), line 89).
IntMaxStrDigits == 4300
Take(s, n) == SubSeq(s, 1, IF Len(s) < n THEN Len(s) ELSE n)
LongText == [i \in 1 .. TextLimit + 1 |-> IF i <= TextLimit THEN Char.x ELSE Char.y]

\* int(metadata['page_label']) on a string (line 89).  The string is read as
\* [space]* [sign] digits [space]*, where a single underscore may stand
\* between two digits; anything else is a ValueError, and so is a string of
\* more than 4300 digits, whatever the digits are (leading zeros count; the
\* sign, the space and the underscores do not).
\* The digits are the characters of general category Nd (Unicode 14, the
\* table of CPython 3.11 and 3.12), which
\* come in runs of ten, zero to nine: the zero of each run.
DigitZeros ==
    {48, 1632, 1776, 1984, 2406, 2534, 2662, 2790, 2918, 3046, 3174, 3302,
     3430, 3558, 3664, 3792, 3872, 4160, 4240, 6112, 6160, 6470, 6608, 6784,
     6800, 6992, 7088, 7232, 7248, 42528, 43216, 43264, 43472, 43504, 43600,
     44016, 65296, 66720, 68912, 69734, 69872, 69942, 70096, 70384, 70736,
     70864, 71248, 71360, 71472, 71904, 72016, 72784, 73040, 73120, 92768,
     92864, 93008, 120782, 120792, 120802, 120812, 120822, 123200, 123632,
     125264, 130032}
Digits == UNION {z .. z + 9 : z \in DigitZeros}
DigitVal(c) == c - (CHOOSE z \in DigitZeros : c \in z .. z + 9)
\* The space int() skips at both ends is that of str.isspace() without
\* U+001C..U+001F: these four are kept as they are and are no digits.
IntStripped(s) ==
    LET Skipped(c) == c \in Whitespace \ (28 .. 31)
        n == Len(s)
        lead == CHOOSE k \in 0 .. n :
                  /\ \A j \in 1 .. k : Skipped(s[j])
                  /\ k < n => ~Skipped(s[k + 1])
        trail == CHOOSE k \in 0 .. n :
                   /\ \A j \in 1 .. k : Skipped(s[n + 1 - j])
                   /\ k < n => ~Skipped(s[n - k])
    IN IF lead = n THEN << >> ELSE SubSeq(s, lead + 1, n - trail)
Unsigned(s) ==
    LET t == IntStripped(s)
    IN IF t # << >> /\ Head(t) \in {Char.plus, Char.minus} THEN Tail(t) ELSE t
IntRaises(s) ==
    LET body == Unsigned(s)
    IN \/ body = << >>
       \/ Cardinality({i \in 1 .. Len(body) : body[i] \in Digits}) > IntMaxStrDigits
       \/ \E i \in 1 .. Len(body) : body[i] \notin Digits \cup {Char.underscore}
       \/ body[1] = Char.underscore
       \/ body[Len(body)] = Char.underscore
       \/ \E i \in 1 .. Len(body) - 1 :
            body[i] = Char.underscore /\ body[i + 1] = Char.underscore
RECURSIVE DigitsValue(_)
DigitsValue(ds) ==
    IF ds = << >> THEN 0
    ELSE 10 * DigitsValue(SubSeq(ds, 1, Len(ds) - 1)) + DigitVal(ds[Len(ds)])
IntOf(s) ==
    LET t == IntStripped(s)
        v == DigitsValue(SelectSeq(Unsigned(s), LAMBDA c : c \in Digits))
    IN IF t # << >> /\ Head(t) = Char.minus THEN 0 - v ELSE v

\* Source nodes.  has_node: the object has .node with .metadata (line 83);
\* metadata_none: node.node.metadata is None, else a dict with the keys `keys`;
\* text_kind: node.node has no .text ("absent"), or its .text is None or a str.
\* The page labels are strings: "3", "12", "iv", "", " 3", "+3", "-3", "1_2",
\* "1__2", U+0663 (ARABIC-INDIC DIGIT THREE), U+001C "3", "3" U+00A0 and
\* the digit "1" 4301 times.
PageLabels ==
    {[i \in 1 .. IntMaxStrDigits + 1 |-> Char.d1],
     <<Char.d3>>, <<Char.d1, Char.d2>>, <<Char.i, Char.v>>, << >>,
     <<Char.space, Char.d3>>, <<Char.plus, Char.d3>>, <<Char.minus, Char.d3>>,
     <<Char.d1, Char.underscore, Char.d2>>,
     <<Char.d1, Char.underscore, Char.underscore, Char.d2>>,
     <<Char.arabic3>>, <<Char.fs, Char.d3>>, <<Char.d3, Char.nbsp>>}
NodeTexts == {<<Char.a, Char.b>>, LongText}
SourceNode(has_node, keys, doc_id, page_label, text_kind, node_text) ==
    [has_node |-> has_node, metadata_none |-> FALSE, keys |-> keys,
     db_document_id |-> doc_id, page_label |-> page_label,
     text_kind |-> text_kind, text |-> node_text]
BareNode == SourceNode(FALSE, {}, "", << >>, "absent", << >>)
GoodNode == SourceNode(TRUE, {"db_document_id", "page_label"}, "doc-1", <<Char.d3>>,
                       "str", <<Char.a, Char.b>>)
\* Every page label with a short text; the labels "12" and "iv" with the long
\* text, without .text and with .text None; nodes whose metadata lacks a key;
\* a node whose metadata is None; a node without .node.
NodeSet ==
    {BareNode, [GoodNode EXCEPT !.metadata_none = TRUE, !.keys = {}]}
      \cup {[GoodNode EXCEPT !.page_label = l] : l \in PageLabels}
      \cup {[GoodNode EXCEPT !.page_label = l, !.text = LongText] :
              l \in {<<Char.d1, Char.d2>>, <<Char.i, Char.v>>}}
      \cup {[GoodNode EXCEPT !.page_label = l, !.text_kind = k, !.text = << >>] :
              l \in {<<Char.d1, Char.d2>>, <<Char.i, Char.v>>}, k \in {"absent", "None"}}
      \cup {SourceNode(TRUE, {"page_label"}, "", <<Char.d3>>, "str", <<Char.a, Char.b>>),
            SourceNode(TRUE, {"db_document_id"}, "doc-1", << >>, "str", <<Char.a, Char.b>>),
            SourceNode(TRUE, {}, "", << >>, "str", <<Char.a, Char.b>>)}
NodeLists(nodes) == UNION {[1 .. n -> nodes] : n \in 0 .. MaxNodes}

\* Lines 83-94, the loop body on one source node: the citations it appends
\* (none or one), or raised.  `in metadata` of line 85 is outside the try: on
\* None it raises TypeError.  Inside the try, int() raises ValueError on a
\* label it cannot read and None[:200] raises TypeError: both are caught and
\* the node is passed over.
NodeCitations(node) ==
    IF node.has_node /\ node.metadata_none
    THEN [raised |-> TRUE, citations |-> << >>]
    ELSE IF /\ node.has_node
            /\ {"db_document_id", "page_label"} \subseteq node.keys
            /\ ~IntRaises(node.page_label)
            /\ node.text_kind # "None"
    THEN [raised |-> FALSE,
          citations |->
            <<[document_id |-> node.db_document_id,
               page_number |-> IntOf(node.page_label),
               text |-> IF node.text_kind = "str" THEN Take(node.text, TextLimit)
                        ELSE << >>]>>]
    ELSE [raised |-> FALSE, citations |-> << >>]
\* Lines 81-94: the loop over response.source_nodes, which an exception ends.
RECURSIVE ExtractCitations(_)
ExtractCitations(nodes) ==
    IF nodes = << >> THEN [raised |-> FALSE, citations |-> << >>]
    ELSE LET first == NodeCitations(Head(nodes))
             rest == ExtractCitations(Tail(nodes))
         IN IF first.raised THEN first
            ELSE [raised |-> rest.raised,
                  citations |-> IF rest.raised THEN << >>
                                ELSE first.citations \o rest.citations]

\* The payload's RESPONSE entry.  kind: "absent" (no such key), "plain" (a value
\* without source_nodes), "nodes_only" (source_nodes but no .response), "full".
ResponseEntry(kind, nodes) ==
    [kind |-> kind, source_nodes |-> nodes, response |-> "answer"]
\* A payload: None, or a dict with the entries RESPONSE, SUB_QUESTION ("absent",
\* "pair") and FUNCTION_OUTPUT ("absent", "str": the string "output", "other").
DictPayload(response, sub_question, function_output) ==
    [is_none |-> FALSE, response |-> response, sub_question |-> sub_question,
     function_output |-> function_output]
NonePayload ==
    [is_none |-> TRUE, response |-> ResponseEntry("absent", << >>),
     sub_question |-> "absent", function_output |-> "absent"]
ResponseEntries(nodes) ==
    {ResponseEntry("absent", << >>), ResponseEntry("plain", << >>)}
      \cup {ResponseEntry(k, ns) : k \in {"nodes_only", "full"}, ns \in NodeLists(nodes)}
\* Payloads of every shape over the nodes GoodNode and BareNode, and payloads
\* with a full response over every list of nodes.
EventPayloads ==
    {NonePayload}
      \cup {DictPayload(r, q, f) : r \in ResponseEntries({GoodNode, BareNode}),
                                   q \in {"absent", "pair"},
                                   f \in {"absent", "str", "other"}}
      \cup {DictPayload(ResponseEntry("full", ns), "absent", "absent") :
              ns \in NodeLists(NodeSet)}

Entry(question, answer, citations) ==
    [question |-> question, answer |-> answer, citations |-> citations]
\* schema.QuestionAnswerPair.from_sub_question_answer_pair(sub_q).dict()
QuestionAnswerPairDict(sub_q) == Entry("sub_q.question", "sub_q.answer", << >>)

\* Lines 76, 105-106, 111-112: the branch of the if / elif chain that is taken.
BranchSubQuestionFirst(event_type, event_payload) ==
    IF event_type = "SUB_QUESTION" /\ event_payload.sub_question # "absent"
    THEN "sub_question"
    ELSE IF event_type = "FUNCTION_CALL" /\ event_payload.function_output # "absent"
    THEN "function_call"
    ELSE IF event_payload.response.kind # "absent" THEN "response"
    ELSE "none"
Branch(event_type, event_payload) ==
    IF event_payload.response.kind # "absent" THEN "response"
    ELSE IF event_type = "SUB_QUESTION" /\ event_payload.sub_question # "absent"
    THEN "sub_question"
    ELSE IF event_type = "FUNCTION_CALL" /\ event_payload.function_output # "absent"
    THEN "function_call"
    ELSE "none"

Returned(map) == [status |-> "returned", error |-> "", map |-> map]
Raised(error) == [status |-> "raised", error |-> error, map |-> EmptyMetadata]

get_metadata_from_event(event_type, event_payload, is_start_event) ==
    IF event_payload.is_none THEN Raised("TypeError")
    ELSE LET branch == Branch(event_type, event_payload)
             extracted == ExtractCitations(event_payload.response.source_nodes)
         IN CASE branch = "response" ->
                   IF event_payload.response.kind # "full" THEN Returned(EmptyMetadata)
                   ELSE IF extracted.raised THEN Raised("TypeError")
                   ELSE IF extracted.citations # << >>
                   THEN Returned([key |-> "sub_questions",
                                  value |-> <<Entry(PlaceholderQuestion,
                                                    event_payload.response.response,
                                                    extracted.citations)>>])
                   ELSE Returned(EmptyMetadata)
              [] branch = "sub_question" ->
                   Returned([key |-> "sub_question",
                             value |-> <<QuestionAnswerPairDict(event_payload.sub_question)>>])
              [] branch = "function_call" ->
                   IF event_payload.function_output = "str"
                   THEN Returned([key |-> "sub_questions",
                                  value |-> <<Entry(PlaceholderQuestion, "output", << >>)>>])
                   ELSE Returned(EmptyMetadata)
              [] OTHER -> Returned(EmptyMetadata)

\* metadata_map = metadata_map or None (line 138)
MetadataOrNone(map) == IF map = EmptyMetadata THEN NoneMetadata ELSE map

\* has_ended=not is_start_event (line 149).
HasEndedSwapped(is_start_event) == is_start_event
HasEnded(is_start_event) == ~is_start_event

NoArgs == [event_type |-> "QUERY", payload |-> NonePayload, is_start_event |-> FALSE]
NoMetadataResult == [status |-> "none", error |-> "", map |-> EmptyMetadata]
NoRecord == StreamedMessageSubProcess("", FALSE, 0, NoneMetadata, "none")

\* async_on_event, lines 135-150, for one event: the metadata and the record
\* that is built for the send.
CallGetMetadata ==
    /\ md_result = NoMetadataResult
    /\ \E event_type \in EventTypes, p \in EventPayloads, is_start_event \in BOOLEAN :
         LET r == get_metadata_from_event(event_type, p, is_start_event)
         IN /\ md_args' = [event_type |-> event_type, payload |-> p,
                           is_start_event |-> is_start_event]
            /\ md_result' = r
            /\ md_record' =
                 IF r.status = "raised" THEN NoRecord
                 ELSE StreamedMessageSubProcess(event_type, HasEnded(is_start_event),
                                                1, MetadataOrNone(r.map), "event")
    /\ UNCHANGED <<turnVars, historyVars, indexVars>>

MetaInit ==
    /\ md_args = NoArgs
    /\ md_result = NoMetadataResult
    /\ md_record = NoRecord

MetaNext == CallGetMetadata

(***************************************************************************)
(* get_chat_history (engine.py, lines 175-202)                             *)
(***************************************************************************)
\* The contents "", " ", a form feed and "a".
Contents == {<< >>, <<Char.space>>, <<Char.ff>>, <<Char.a>>}
Statuses == {"SUCCESS", "ERROR", "PENDING"}
Roles == {"user", "assistant"}
Stamps == 1 .. MaxStamp
Messages == [content : Contents, status : Statuses, role : Roles, created_at : Stamps]

\* Line 188: m.content.strip() and m.status == MessageStatusEnum.SUCCESS
KeepNoStrip(m) == m.content # << >> /\ m.status = "SUCCESS"
Keep(m) == Strip(m.content) # << >> /\ m.status = "SUCCESS"

\* sorted(chat_messages, key=lambda m: m.created_at): a stable sort; each
\* message goes after the messages that are not later than it.
RECURSIVE InsertByCreatedAt(_, _)
InsertByCreatedAt(m, sorted) ==
    IF sorted = << >> THEN <<m>>
    ELSE IF Head(sorted).created_at <= m.created_at
         THEN <<Head(sorted)>> \o InsertByCreatedAt(m, Tail(sorted))
         ELSE <<m>> \o sorted
RECURSIVE SortedByCreatedAt(_)
SortedByCreatedAt(msgs) ==
    IF msgs = << >> THEN << >>
    ELSE InsertByCreatedAt(msgs[Len(msgs)],
                           SortedByCreatedAt(SubSeq(msgs, 1, Len(msgs) - 1)))

\* Lines 185-191.
FilteredSorted(msgs) == SortedByCreatedAt(SelectSeq(msgs, Keep))

\* Lines 195-200: ChatMessage(content=message.content, role=role).
ChatMessage(m) ==
    [content |-> m.content,
     role |-> IF m.role = "assistant" THEN "ASSISTANT" ELSE "USER"]

get_chat_history(msgs) ==
    LET kept == FilteredSorted(msgs)
    IN [i \in 1 .. Len(kept) |-> ChatMessage(kept[i])]

\* The caller's message list grows by one message.
AddMessage ==
    /\ Len(chat_messages) < MaxMsgs
    /\ \E m \in Messages : chat_messages' = Append(chat_messages, m)
    /\ kept_messages' = << >>
    /\ chat_history' = << >>
    /\ history_called' = FALSE
    /\ UNCHANGED <<turnVars, indexVars, metaVars>>

\* get_chat_history(chat_messages)
CallGetChatHistory ==
    /\ ~history_called
    /\ kept_messages' = FilteredSorted(chat_messages)
    /\ chat_history' = get_chat_history(chat_messages)
    /\ history_called' = TRUE
    /\ UNCHANGED <<chat_messages, turnVars, indexVars, metaVars>>

HistoryInit ==
    /\ chat_messages = << >>
    /\ kept_messages = << >>
    /\ chat_history = << >>
    /\ history_called = FALSE

HistoryNext ==
    \/ AddMessage
    \/ CallGetChatHistory

(***************************************************************************)
(* get_storage_context and build_doc_id_to_index_map (engine.py, 112-172)  *)
(***************************************************************************)
\* ttl=timedelta(minutes=5).total_seconds()
TTL == 300
DocIds == 1 .. MaxDocId
\* str(doc.id)
StrId(d) == <<"id", d>>
\* Document lists: sequences of document ids of length at most MaxDocs.
DocLists == UNION {[1 .. n -> DocIds] : n \in 0 .. MaxDocs}
TickSteps == {150, 300}

NoEntry == [present |-> FALSE, ids |-> {}, expires |-> 0]
\* TTLCache.__getitem__: an entry is served while timer() < expires.
CacheNeverHits == FALSE
CacheHit == cache.present /\ now < cache.expires

\* load_indices_from_storage(storage_context, index_ids=...): one index per id,
\* in order; ValueError when the context has no index struct for an id.
LoadRaises(ctx_ids, index_ids) ==
    \E i \in 1 .. Len(index_ids) : index_ids[i] \notin ctx_ids
LoadedIndicesReversed(index_ids) ==
    [i \in 1 .. Len(index_ids) |-> [index_id |-> index_ids[Len(index_ids) + 1 - i]]]
LoadedIndices(index_ids) ==
    [i \in 1 .. Len(index_ids) |-> [index_id |-> index_ids[i]]]

\* dict(zip(keys, values)): pairs up to the shorter list; a later pair
\* replaces an earlier one with the same key.
ZipDict(keys, values) ==
    LET n == IF Len(keys) < Len(values) THEN Len(keys) ELSE Len(values)
        last(k) == CHOOSE i \in 1 .. n :
                     keys[i] = k /\ \A j \in (i + 1) .. n : keys[j] # k
    IN [k \in {keys[i] : i \in 1 .. n} |-> values[last(k)]]

\* Lines 160-171: the map after the loop has handled the first n documents.
RebuiltMapSkipsFirst(docs, n) ==
    [k \in {StrId(docs[i]) : i \in 2 .. n} |-> [index_id |-> k]]
RebuiltMap(docs, n) ==
    [k \in {StrId(docs[i]) : i \in 1 .. n} |-> [index_id |-> k]]

\* No call has returned since time last passed.
NoResult ==
    [status |-> "none", hit |-> FALSE, path |-> "none", fetch_failed |-> FALSE,
     map |-> << >>]

\* Lines 80 and 152-162: the HTTPError of r.raise_for_status() is raised inside
\* the `except ValueError` handler, where nothing catches it.
HttpErrorSwallowed(fetch_failed) == FALSE
HttpErrorPropagates(fetch_failed) == fetch_failed

\* A StorageContext constructed at this instant, by the named code.
Constructed(by) == [at |-> now, by |-> by]

\* build_doc_id_to_index_map(callback_manager, docs, fs).  fail_at = 0: every
\* document fetch succeeds; fail_at = i: fetching the i-th raises an HTTP error.
BuildDocIdToIndexMap(docs, fail_at) ==
    LET hit == CacheHit
        found == persisted.exists
        \* lines 134-143
        ctx_ids == IF hit THEN cache.ids
                   ELSE IF found THEN persisted.ids ELSE {}
        built1 == IF hit THEN << >>
                  ELSE IF found THEN <<Constructed("get_storage_context")>>
                  ELSE <<Constructed("not_found")>>
        cache1 == IF ~hit /\ found
                  THEN [present |-> TRUE, ids |-> persisted.ids, expires |-> now + TTL]
                  ELSE cache
        stored1 == IF ~hit /\ ~found THEN [exists |-> TRUE, ids |-> {}] ELSE persisted
        \* lines 144-150
        index_ids == [i \in 1 .. Len(docs) |-> StrId(docs[i])]
        value_error == LoadRaises(ctx_ids, index_ids)
        \* lines 152-171
        done == IF fail_at = 0 THEN Len(docs) ELSE fail_at - 1
        stored2 == [exists |-> TRUE,
                    ids |-> stored1.ids \cup {StrId(docs[i]) : i \in 1 .. done}]
    IN /\ cache' = cache1
       /\ IF ~value_error
          THEN /\ persisted' = stored1
               /\ recent_ctx' = recent_ctx \o built1
               /\ result' = [status |-> "returned", hit |-> hit,
                             path |-> IF hit \/ found THEN "load" ELSE "not_found",
                             fetch_failed |-> FALSE,
                             map |-> ZipDict(index_ids, LoadedIndices(index_ids))]
          ELSE /\ persisted' = stored2
               /\ recent_ctx' = (recent_ctx \o built1) \o <<Constructed("rebuild")>>
               /\ result' = IF ~HttpErrorPropagates(fail_at # 0)
                            THEN [status |-> "returned", hit |-> hit,
                                  path |-> "rebuild", fetch_failed |-> fail_at # 0,
                                  map |-> RebuiltMap(docs, done)]
                            ELSE [status |-> "raised", hit |-> hit,
                                  path |-> "rebuild", fetch_failed |-> TRUE,
                                  map |-> << >>]

(***************************************************************************)
(* get_chat_engine, lines 209-264: the tool lists                          *)
(***************************************************************************)
\* DocumentMetadataKeysEnum.SEC_DOCUMENT in doc.metadata_map (line 261): in the
\* model the documents with an odd id are SEC filings.
HasSecMetadata(d) == d % 2 = 1

\* The keys of a dict in iteration order: the order of first insertion.
RECURSIVE KeysInOrder(_)
KeysInOrder(keys) ==
    IF keys = << >> THEN << >>
    ELSE LET rest == KeysInOrder(SubSeq(keys, 1, Len(keys) - 1))
             k == keys[Len(keys)]
         IN IF \E i \in 1 .. Len(rest) : rest[i] = k THEN rest ELSE Append(rest, k)

\* Line 220: the doc ids `for doc_id, index in doc_id_to_index.items()` visits.
ToolKeysPerDocument(map, docs) == [i \in 1 .. Len(docs) |-> StrId(docs[i])]
ToolKeys(map, docs) ==
    SelectSeq(KeysInOrder([i \in 1 .. Len(docs) |-> StrId(docs[i])]),
              LAMBDA k : k \in DOMAIN map)

\* Lines 219-245: one QueryEngineTool per item, named by its doc id, over a
\* retriever of the item's index filtered to that doc id.
VectorQueryEngineTools(map, docs) ==
    LET keys == ToolKeys(map, docs)
    IN [i \in 1 .. Len(keys) |->
          [name |-> keys[i], filter |-> keys[i], index |-> map[keys[i]]]]

\* Lines 259-264: one API tool per document that is an SEC filing.
ApiQueryEngineTools(docs) ==
    LET sec == SelectSeq(docs, HasSecMetadata)
    IN [i \in 1 .. Len(sec) |-> [document |-> StrId(sec[i])]]

NoTools == [built |-> FALSE, qualitative |-> << >>, quantitative |-> << >>]
ChatEngineTools(map, docs) ==
    [built |-> TRUE,
     qualitative |-> VectorQueryEngineTools(map, docs),
     quantitative |-> ApiQueryEngineTools(docs)]

\* get_chat_engine from its resumption at engine.py line 132 to its end, apart
\* from the callbacks: the rest of build_doc_id_to_index_map (lines 133-172)
\* over the conversation's documents, and when it returns the tool lists
\* (lines 214-264) and the chat history of the conversation's messages
\* (lines 302-303).  None of this awaits.
GetChatEngine(doclists) ==
    /\ calls' = calls + 1
    /\ \E docs \in doclists :
         /\ documents' = docs
         /\ \E fail_at \in 0 .. Len(docs) : BuildDocIdToIndexMap(docs, fail_at)
         /\ tools' = IF result'.status = "returned"
                     THEN ChatEngineTools(result'.map, docs) ELSE NoTools
    /\ kept_messages' = IF result'.status = "returned"
                        THEN FilteredSorted(chat_messages) ELSE kept_messages
    /\ chat_history' = IF result'.status = "returned"
                       THEN get_chat_history(chat_messages) ELSE chat_history
    /\ history_called' = (history_called \/ result'.status = "returned")
    /\ UNCHANGED <<now, chat_messages>>

\* A call of get_chat_engine outside a chat turn: the whole function, with
\* any list of documents.
CallBuild ==
    /\ calls < MaxCalls
    /\ GetChatEngine(DocLists)
    /\ UNCHANGED <<turnVars, metaVars>>

\* Before the first chat turn the store may have been filled (the seed_db
\* script of the log message of lines 153-156): indices are persisted under
\* persist_dir.
SeedStore ==
    /\ calls = 0
    /\ ~persisted.exists
    /\ \E S \in SUBSET {StrId(d) : d \in DocIds} :
         persisted' = [exists |-> TRUE, ids |-> S]
    /\ UNCHANGED <<now, cache, recent_ctx, calls, documents, result, tools,
                   turnVars, historyVars, metaVars>>

\* Time passes; constructions older than 5 minutes leave the window, and the
\* outcome of the last call is forgotten.
Tick ==
    /\ \E d \in TickSteps :
         /\ now + d <= MaxClock
         /\ now' = now + d
    /\ recent_ctx' = SelectSeq(recent_ctx, LAMBDA c : now' - c.at < TTL)
    /\ documents' = << >>
    /\ result' = NoResult
    /\ tools' = NoTools
    /\ UNCHANGED <<cache, persisted, calls, turnVars, historyVars, metaVars>>

IndexInit ==
    /\ now = 0
    /\ cache = NoEntry
    /\ persisted = [exists |-> FALSE, ids |-> {}]
    /\ recent_ctx = << >>
    /\ calls = 0
    /\ documents = << >>
    /\ result = NoResult
    /\ tools = NoTools

IndexNext ==
    \/ SeedStore
    \/ CallBuild
    \/ Tick

(***************************************************************************)
(* The initial state of a turn: handle_chat_message has entered            *)
(* `async with send_chan` and called get_chat_engine (lines 171-174), which *)
(* is suspended in build_doc_id_to_index_map at the await of engine.py     *)
(* line 132; the consumer of the stream runs its own code.                 *)
(***************************************************************************)
Finished == {"done", "raised"}

TurnInit ==
    /\ buffer = << >>
    /\ waiting_senders = << >>
    /\ waiting_receivers = 0
    /\ consumer = "busy"
    /\ receiver_item = NoItem
    /\ send_closed = FALSE
    /\ recv_closed = FALSE
    /\ ready = << >>
    /\ pc = [t \in Tasks |-> IF t = HCM THEN "engine" ELSE "idle"]
    /\ pending = [t \in Tasks |-> NoItem]
    /\ err = [t \in Tasks |-> "none"]
    /\ response_str = << >>
    /\ text = << >>
    /\ exhausted = FALSE
    /\ ev = [e \in EventIds |-> "idle"]
    /\ task_event_type = [t \in EventTasks |-> NoArgs.event_type]
    /\ payload = [t \in EventTasks |-> NoArgs.payload]
    /\ yielded = << >>
    /\ sent_log = << >>
    /\ delivered = << >>
    /\ closed_mid_stream = FALSE

(***************************************************************************)
(* The event loop runs the task at the head of its ready queue up to that   *)
(* task's next suspension point (asyncio runs ready callbacks in the order  *)
(* in which they were scheduled).                                           *)
(***************************************************************************)
Running(t) == ready # << >> /\ Head(ready) = t

\* MemoryObjectSendStream.send_nowait, as reached from send() after its
\* checkpoint: what it does with the stream in its present state.  A waiting
\* receiver whose task has a pending cancellation is popped without being
\* given the item, which then goes the way of the buffer.  "handed": the item
\* goes to a waiting receiver without entering the buffer.
SendOutcome ==
    IF send_closed THEN "ClosedResourceError"
    ELSE IF recv_closed THEN "BrokenResourceError"
    ELSE IF waiting_receivers > 0 /\ consumer # "cancelled" THEN "handed"
    ELSE IF Len(buffer) < MaxBuffer THEN "ok"
    ELSE "WouldBlock"
Accepted == {"ok", "handed"}

\* A step wakes the consumer waiting in receive() when it hands it an item or
\* closes the last send stream (the consumer then ends with EndOfStream).  A
\* consumer with a pending cancellation is in the ready queue already.
Wakes(o) == consumer = "waiting" /\ (o = "handed" \/ send_closed')
WokenBy(o) == IF Wakes(o) THEN <<CONSUMER>> ELSE << >>

\* The waiting receivers and the consumer after a step in which send_nowait
\* had outcome o ("none": the step made no send_nowait).  send_nowait pops
\* waiting receivers until one takes the item: after a call that got past the
\* closed checks none is left.
ReceiversAfter(o) ==
    /\ waiting_receivers' = IF o \in {"handed", "ok", "WouldBlock"} \/ send_closed'
                            THEN 0 ELSE waiting_receivers
    /\ consumer' = IF Wakes(o) THEN "woken" ELSE consumer

\* The effect of send_nowait / send on the stream when task t sends pending[t].
StreamAfterSend(t, o) ==
    /\ buffer' = IF o = "ok" THEN Append(buffer, pending[t]) ELSE buffer
    /\ sent_log' = IF o \in Accepted THEN Append(sent_log, pending[t]) ELSE sent_log
    /\ receiver_item' = IF o = "handed" THEN pending[t] ELSE receiver_item
    /\ waiting_senders' =
         IF o = "WouldBlock"
         THEN Append(waiting_senders, [task |-> t, item |-> pending[t]])
         ELSE waiting_senders

\* A sender woken from send_event.wait(): is its event still in waiting_senders?
StillWaiting(t) == \E i \in 1 .. Len(waiting_senders) : waiting_senders[i].task = t
WithoutSender(t) == SelectSeq(waiting_senders, LAMBDA w : w.task # t)

\* `async with send_chan` (line 171): leaving the block closes the send stream.
ClosedAfter(newpc) == newpc \in Finished \/ send_closed

(***************************************************************************)
(* The lifecycle callbacks of ChatCallbackHandler                          *)
(***************************************************************************)
\* The callbacks made so far, given the state of the events.  Event ids are
\* the pipeline's labels; the model numbers the events in the order in which
\* they start.
CallbacksOf(evs) ==
    Cardinality({e \in EventIds : evs[e] # "idle"})
      + Cardinality({e \in EventIds : evs[e] = "ended"})

\* The arguments of a lifecycle callback: the event type and the payload.
LifecycleEvent(type, p) == [event_type |-> type, payload |-> p]
NoResponse == ResponseEntry("absent", << >>)
\* A function call reported without payload (payload=None, the default of
\* lines 46 and 60) and one reported with its output.
PlainEvents ==
    {LifecycleEvent("FUNCTION_CALL", NonePayload),
     LifecycleEvent("FUNCTION_CALL", DictPayload(NoResponse, "absent", "str"))}
\* Besides: a query without payload and one with an empty dict, and a
\* response with a citable source node next to a sub-question entry.
LifecycleEvents ==
    PlainEvents
      \cup {LifecycleEvent("QUERY", NonePayload),
            LifecycleEvent("QUERY", DictPayload(NoResponse, "absent", "absent")),
            LifecycleEvent("SUB_QUESTION",
                           DictPayload(ResponseEntry("full", <<GoodNode>>),
                                       "pair", "absent"))}

\* What a callback changes: the events, the tasks and the ready queue.
CallbackState ==
    [ev |-> ev, task_event_type |-> task_event_type, payload |-> payload,
     pc |-> pc, ready |-> ready]
SetCallbackState(s) ==
    /\ ev' = s.ev
    /\ task_event_type' = s.task_event_type
    /\ payload' = s.payload
    /\ pc' = s.pc
    /\ ready' = s.ready

\* A call of on_event_start (start) or on_event_end of event e with arguments x.
CallbackSet(events) == [start : BOOLEAN, e : EventIds, x : events]
\* The pipeline ends an event it has started, and starts each event once.
InProtocol(s, c) ==
    /\ CallbacksOf(s.ev) < MaxCallbacks
    /\ IF c.start
       THEN s.ev[c.e] = "idle" /\ (c.e > 1 => s.ev[c.e - 1] # "idle")
       ELSE s.ev[c.e] = "started"
\* Lines 51-55 and 65-69: asyncio.create_task(self.async_on_event(...)); the
\* new task is appended to the loop's ready queue.
CreateTask(s, c) ==
    LET t == IF c.start THEN StartTask(c.e) ELSE EndTask(c.e)
    IN [ev |-> [s.ev EXCEPT ![c.e] = IF c.start THEN "started" ELSE "ended"],
        task_event_type |-> [s.task_event_type EXCEPT ![t] = c.x.event_type],
        payload |-> [s.payload EXCEPT ![t] = c.x.payload],
        pc |-> [s.pc EXCEPT ![t] = "new"],
        ready |-> Append(s.ready, t)]

\* The states after at most n callbacks made one after the other from state s,
\* without the loop running in between.
RECURSIVE AfterCallbacks(_, _, _)
AfterCallbacks(s, events, n) ==
    {s} \cup
      (IF n = 0 THEN {}
       ELSE UNION {AfterCallbacks(CreateTask(s, c), events, n - 1) :
                     c \in {d \in CallbackSet(events) : InProtocol(s, d)}})

(***************************************************************************)
(* handle_chat_message                                                     *)
(***************************************************************************)
\* Where handle_chat_message goes on once a send has completed.
HcmAfterSend(where) ==
    CASE where = "marker" -> "astream"
      [] where = "snapshot" -> "await_token"
      [] where = "fallback" -> "done"

\* The awaited get_vector_store_singleton completes (engine.py line 132):
\* handle_chat_message, suspended there inside get_chat_engine, becomes ready.
VectorStoreReturns ==
    /\ pc[HCM] = "engine"
    /\ pc' = [pc EXCEPT ![HCM] = "engine_resumed"]
    /\ ready' = Append(ready, HCM)
    /\ UNCHANGED <<historyVars, metaVars, indexVars, chanVars, pending, err, hcmVars,
                   pipeVars, histVars>>

\* The awaited get_vector_store_singleton raises (engine.py line 132).
VectorStoreRaises ==
    /\ pc[HCM] = "engine"
    /\ pc' = [pc EXCEPT ![HCM] = "store_err"]
    /\ ready' = Append(ready, HCM)
    /\ UNCHANGED <<historyVars, metaVars, indexVars, chanVars, pending, err, hcmVars,
                   pipeVars, histVars>>

\* The callbacks the build makes through the CallbackManager of line 209
\* (load_indices_from_storage, lines 145-149; VectorStoreIndex.from_documents,
\* lines 164-168): they are made inside the step in which handle_chat_message
\* runs, so each task is created behind the tasks already ready and ahead of
\* whatever handle_chat_message schedules next.
BuildCallbacks(events) ==
    AfterCallbacks([CallbackState EXCEPT !.ready = Tail(ready)], events,
                   MaxBuildCallbacks)

\* Lines 175-181: with the engine, handle_chat_message first sends the marker.
AfterEngineSkipsMarker == "astream"
AfterEngine == "send_ckpt"

\* One step of handle_chat_message, resumed at engine.py line 132:
\* get_chat_engine builds the index map and the engine and returns it
\* (line 172), and send(marker) of line 175 starts with a checkpoint.
HcmEngineReturned(doclists, events) ==
    /\ Running(HCM) /\ pc[HCM] = "engine_resumed"
    /\ GetChatEngine(doclists)
    /\ result'.status = "returned"
    /\ \E s \in BuildCallbacks(events) :
         SetCallbackState(
           [s EXCEPT !.pc = [s.pc EXCEPT ![HCM] = AfterEngine],
                     !.ready = IF AfterEngine = "send_ckpt"
                               THEN Append(s.ready, HCM) ELSE s.ready])
    /\ pending' = [pending EXCEPT ![HCM] =
                     IF AfterEngine = "send_ckpt" THEN Marker ELSE @]
    /\ UNCHANGED <<metaVars, chanVars, err, hcmVars, histVars>>

\* One step of handle_chat_message, resumed at engine.py line 132 with the
\* exception of get_vector_store_singleton, or resumed normally with the build
\* raising: the exception leaves get_chat_engine and the async with block of
\* line 171, which closes the send stream.  The tasks of the callbacks the
\* build made before it raised stay in the ready queue.
HcmEngineRaised(doclists, events) ==
    /\ Running(HCM)
    /\ err' = [err EXCEPT ![HCM] = "EngineError"]
    /\ send_closed' = ClosedAfter("raised")
    /\ ReceiversAfter("none")
    /\ \/ /\ pc[HCM] = "engine_resumed"
          /\ GetChatEngine(doclists)
          /\ result'.status = "raised"
          /\ \E s \in BuildCallbacks(events) :
               SetCallbackState(
                 [s EXCEPT !.pc = [s.pc EXCEPT ![HCM] = "raised"],
                           !.ready = s.ready \o WokenBy("none")])
       \/ /\ pc[HCM] = "store_err"
          /\ pc' = [pc EXCEPT ![HCM] = "raised"]
          /\ ready' = Tail(ready) \o WokenBy("none")
          /\ UNCHANGED <<historyVars, indexVars, pipeVars>>
    /\ UNCHANGED <<metaVars, buffer, waiting_senders, recv_closed, receiver_item, pending, hcmVars,
                   histVars>>

\* send() after its checkpoint, at lines 175, 199 and 202: send_nowait.
HcmSendNowait ==
    /\ Running(HCM) /\ pc[HCM] = "send_ckpt"
    /\ LET o == SendOutcome
           newpc == CASE o \in Accepted -> HcmAfterSend(pending[HCM].site)
                      [] o = "WouldBlock" -> "send_blocked"
                      [] OTHER -> "raised"
       IN /\ StreamAfterSend(HCM, o)
          /\ pc' = [pc EXCEPT ![HCM] = newpc]
          /\ err' = [err EXCEPT ![HCM] = IF newpc = "raised" THEN o ELSE @]
          /\ send_closed' = ClosedAfter(newpc)
          /\ ReceiversAfter(o)
          /\ ready' = Tail(ready) \o WokenBy(o)
    /\ pending' = [pending EXCEPT ![HCM] = IF pc'[HCM] = "send_blocked" THEN @ ELSE NoItem]
    /\ UNCHANGED <<historyVars, metaVars, indexVars, recv_closed, hcmVars, pipeVars, yielded,
                   delivered, closed_mid_stream>>

\* send() resumed from send_event.wait(): the item was taken, or the receive
\* end was closed and the event is still in waiting_senders (BrokenResourceError).
HcmSendWoken ==
    /\ Running(HCM) /\ pc[HCM] = "send_woken"
    /\ LET broken == StillWaiting(HCM)
           newpc == IF broken THEN "raised" ELSE HcmAfterSend(pending[HCM].site)
       IN /\ waiting_senders' = WithoutSender(HCM)
          /\ pc' = [pc EXCEPT ![HCM] = newpc]
          /\ err' = [err EXCEPT ![HCM] = IF broken THEN "BrokenResourceError" ELSE @]
          /\ send_closed' = ClosedAfter(newpc)
          /\ ReceiversAfter("none")
          /\ ready' = Tail(ready) \o WokenBy("none")
    /\ pending' = [pending EXCEPT ![HCM] = NoItem]
    /\ UNCHANGED <<historyVars, metaVars, indexVars, buffer, recv_closed, receiver_item, hcmVars, pipeVars, histVars>>

\* The awaited chat_engine.astream_chat completes (line 189):
\* handle_chat_message becomes ready to run again.
AstreamReturns ==
    /\ pc[HCM] = "astream"
    /\ pc' = [pc EXCEPT ![HCM] = "astream_ok"]
    /\ ready' = Append(ready, HCM)
    /\ UNCHANGED <<historyVars, metaVars, indexVars, chanVars, pending, err, hcmVars, pipeVars, histVars>>

\* The awaited chat_engine.astream_chat raises (line 189).
AstreamRaises ==
    /\ pc[HCM] = "astream"
    /\ pc' = [pc EXCEPT ![HCM] = "agent_err"]
    /\ ready' = Append(ready, HCM)
    /\ UNCHANGED <<historyVars, metaVars, indexVars, chanVars, pending, err, hcmVars, pipeVars, histVars>>

\* Lines 188-192: resumed with the streaming response, handle_chat_message
\* resets the accumulator, creates the generator and awaits its first token.
HcmAstreamReturned ==
    /\ Running(HCM) /\ pc[HCM] = "astream_ok"
    /\ response_str' = << >>
    /\ pc' = [pc EXCEPT ![HCM] = "await_token"]
    /\ ready' = Tail(ready)
    /\ UNCHANGED <<historyVars, metaVars, indexVars, chanVars, pending, err, text, exhausted, pipeVars,
                   histVars>>

\* The generator yields a token (line 192).
TokenArrives(toks, most) ==
    /\ pc[HCM] = "await_token"
    /\ Len(yielded) < most
    /\ \E tok \in toks :
         /\ text' = tok
         /\ yielded' = Append(yielded, tok)
    /\ pc' = [pc EXCEPT ![HCM] = "token_ready"]
    /\ ready' = Append(ready, HCM)
    /\ UNCHANGED <<historyVars, metaVars, indexVars, chanVars, pending, err, response_str, exhausted, pipeVars,
                   sent_log, delivered, closed_mid_stream>>

\* The generator is exhausted (line 192 ends the loop).
StreamEnds ==
    /\ pc[HCM] = "await_token"
    /\ exhausted' = TRUE
    /\ pc' = [pc EXCEPT ![HCM] = "stream_done"]
    /\ ready' = Append(ready, HCM)
    /\ UNCHANGED <<historyVars, metaVars, indexVars, chanVars, pending, err, response_str, text, pipeVars, histVars>>

\* The generator raises instead of yielding (line 192).
GeneratorRaises ==
    /\ pc[HCM] = "await_token"
    /\ pc' = [pc EXCEPT ![HCM] = "gen_err"]
    /\ ready' = Append(ready, HCM)
    /\ UNCHANGED <<historyVars, metaVars, indexVars, chanVars, pending, err, hcmVars, pipeVars, histVars>>

\* Lines 171, 189, 192: the exception of astream_chat or of the generator
\* leaves the async with block.
HcmAgentRaised ==
    /\ Running(HCM) /\ pc[HCM] \in {"agent_err", "gen_err"}
    /\ pc' = [pc EXCEPT ![HCM] = "raised"]
    /\ err' = [err EXCEPT ![HCM] = "AgentError"]
    /\ send_closed' = ClosedAfter("raised")
    /\ ReceiversAfter("none")
    /\ ready' = Tail(ready) \o WokenBy("none")
    /\ UNCHANGED <<historyVars, metaVars, indexVars, buffer, waiting_senders, recv_closed, receiver_item, pending, hcmVars,
                   pipeVars, histVars>>

\* Lines 194-198: where the loop body goes when it finds the send stream closed
\* (`return` leaves the function).
ClosedExitBreaks == "stream_done"
ClosedExit == "done"

\* Lines 193-199: accumulate, return if the send stream is closed, else send
\* the snapshot (send() starts with a checkpoint).
HcmToken ==
    /\ Running(HCM) /\ pc[HCM] = "token_ready"
    /\ response_str' = Accumulate(response_str, text)
    /\ text' = << >>
    /\ LET newpc == IF send_closed THEN ClosedExit ELSE "send_ckpt"
       IN /\ pc' = [pc EXCEPT ![HCM] = newpc]
          /\ pending' = [pending EXCEPT ![HCM] =
                           IF send_closed THEN @
                           ELSE StreamedMessage(response_str', "snapshot")]
          /\ send_closed' = ClosedAfter(newpc)
          /\ ReceiversAfter("none")
          /\ ready' = IF newpc = "done" THEN Tail(ready) \o WokenBy("none")
                      ELSE Append(Tail(ready), HCM)
    /\ UNCHANGED <<historyVars, metaVars, indexVars, buffer, waiting_senders, recv_closed, receiver_item, err, exhausted,
                   pipeVars, histVars>>

\* Lines 201-206: after the loop, the fallback when the text is blank.
HcmAfterLoop ==
    /\ Running(HCM) /\ pc[HCM] = "stream_done"
    /\ LET blank == ResponseIsBlank(response_str)
           newpc == IF blank THEN "send_ckpt" ELSE "done"
       IN /\ pc' = [pc EXCEPT ![HCM] = newpc]
          /\ pending' = [pending EXCEPT ![HCM] =
                           IF blank THEN StreamedMessage(FallbackText, "fallback")
                           ELSE @]
          /\ send_closed' = ClosedAfter(newpc)
          /\ ReceiversAfter("none")
          /\ ready' = IF blank THEN Append(Tail(ready), HCM)
                      ELSE Tail(ready) \o WokenBy("none")
    /\ UNCHANGED <<historyVars, metaVars, indexVars, buffer, waiting_senders, recv_closed, receiver_item, err, hcmVars,
                   pipeVars, histVars>>


(***************************************************************************)
(* ChatCallbackHandler                                                     *)
(***************************************************************************)
HcmActive == pc[HCM] \notin Finished

\* The part of the turn in which handle_chat_message consumes the token
\* stream: from its first wait on the generator to its resumption after the
\* generator has ended or raised (lines 192-199).
InTokenLoop ==
    \/ pc[HCM] \in {"await_token", "token_ready", "stream_done", "gen_err"}
    \/ /\ pc[HCM] \in {"send_ckpt", "send_blocked", "send_woken"}
       /\ pending[HCM].site = "snapshot"

\* Outside the build, the pipeline can report events once get_chat_engine has
\* given the handler's CallbackManager to the engine (engine.py lines 209 and
\* 320), from code that runs between the loop's steps.  The handler has no
\* guard of its own (lines 43-69): it accepts a callback while
\* handle_chat_message is suspended in a send and after it has returned or
\* raised.  Before the build nothing holds the CallbackManager, and a build
\* that raised leaves no engine behind.
PipelineRunning ==
    /\ pc[HCM] \notin {"engine", "engine_resumed", "store_err"}
    /\ err[HCM] # "EngineError"

\* on_event_start (lines 43-55): the pipeline reports that event e started;
\* the handler only creates the task.
on_event_start(e, events) ==
    /\ PipelineRunning
    /\ \E x \in events :
         LET c == [start |-> TRUE, e |-> e, x |-> x]
         IN /\ InProtocol(CallbackState, c)
            /\ SetCallbackState(CreateTask(CallbackState, c))
    /\ UNCHANGED <<historyVars, metaVars, indexVars, chanVars, pending, err, hcmVars, histVars>>

\* on_event_end (lines 57-69).
on_event_end(e, events) ==
    /\ PipelineRunning
    /\ \E x \in events :
         LET c == [start |-> FALSE, e |-> e, x |-> x]
         IN /\ InProtocol(CallbackState, c)
            /\ SetCallbackState(CreateTask(CallbackState, c))
    /\ UNCHANGED <<historyVars, metaVars, indexVars, chanVars, pending, err, hcmVars, histVars>>

\* async_on_event, lines 135-144: the metadata, the closed check, and the
\* start of send() up to its checkpoint.
EventTaskStart(t) ==
    /\ Running(t) /\ pc[t] = "new"
    /\ LET r == get_metadata_from_event(task_event_type[t], payload[t], TaskIsStart(t))
           raises == r.status = "raised"
           newpc == IF raises THEN "raised"
                    ELSE IF send_closed THEN "done" ELSE "send_ckpt"
       IN /\ pc' = [pc EXCEPT ![t] = newpc]
          /\ err' = [err EXCEPT ![t] = IF raises THEN r.error ELSE @]
          /\ pending' = [pending EXCEPT ![t] =
                IF newpc = "send_ckpt"
                THEN StreamedMessageSubProcess(
                         task_event_type[t],
                         HasEnded(TaskIsStart(t)),
                         TaskEvent(t),
                         MetadataOrNone(r.map),
                         "event")
                ELSE @]
          /\ ready' = IF newpc = "send_ckpt" THEN Append(Tail(ready), t)
                      ELSE Tail(ready)
    /\ task_event_type' = [task_event_type EXCEPT ![t] = NoArgs.event_type]
    /\ payload' = [payload EXCEPT ![t] = NoArgs.payload]
    /\ UNCHANGED <<historyVars, metaVars, indexVars, chanVars, hcmVars, ev, histVars>>

\* async_on_event, lines 143-153: send_nowait; ClosedResourceError is caught
\* and logged, any other exception ends the task.
EventSendNowait(t) ==
    /\ Running(t) /\ pc[t] = "send_ckpt"
    /\ LET o == SendOutcome
           newpc == CASE o \in Accepted -> "done"
                      [] o = "WouldBlock" -> "send_blocked"
                      [] o = "ClosedResourceError" -> "done"
                      [] OTHER -> "raised"
       IN /\ StreamAfterSend(t, o)
          /\ pc' = [pc EXCEPT ![t] = newpc]
          /\ err' = [err EXCEPT ![t] = IF newpc = "raised" THEN o ELSE @]
          /\ send_closed' = send_closed
          /\ ReceiversAfter(o)
          /\ ready' = Tail(ready) \o WokenBy(o)
    /\ pending' = [pending EXCEPT ![t] = IF pc'[t] = "send_blocked" THEN @ ELSE NoItem]
    /\ UNCHANGED <<historyVars, metaVars, indexVars, recv_closed, hcmVars, pipeVars, yielded,
                   delivered, closed_mid_stream>>

\* async_on_event resumed from send_event.wait().
EventSendWoken(t) ==
    /\ Running(t) /\ pc[t] = "send_woken"
    /\ LET broken == StillWaiting(t)
       IN /\ waiting_senders' = WithoutSender(t)
          /\ pc' = [pc EXCEPT ![t] = IF broken THEN "raised" ELSE "done"]
          /\ err' = [err EXCEPT ![t] = IF broken THEN "BrokenResourceError" ELSE @]
    /\ ready' = Tail(ready)
    /\ pending' = [pending EXCEPT ![t] = NoItem]
    /\ UNCHANGED <<historyVars, metaVars, indexVars, buffer, waiting_receivers, consumer, send_closed,
                   recv_closed, receiver_item, hcmVars, pipeVars, histVars>>

(***************************************************************************)
(* The consumer and the owner of the stream                                *)
(***************************************************************************)
\* MemoryObjectReceiveStream.receive finds an item: the next waiting sender's
\* item is moved into the buffer and its sender woken, then the buffer's head
\* is taken (receive_nowait).
Receive ==
    /\ consumer = "busy"
    /\ ~recv_closed
    /\ buffer # << >> \/ waiting_senders # << >>
    /\ LET moved == waiting_senders # << >>
           b1 == IF moved THEN Append(buffer, Head(waiting_senders).item) ELSE buffer
       IN /\ buffer' = Tail(b1)
          /\ delivered' = Append(delivered, Head(b1))
          /\ waiting_senders' = IF moved THEN Tail(waiting_senders) ELSE waiting_senders
          /\ sent_log' = IF moved THEN Append(sent_log, Head(waiting_senders).item)
                         ELSE sent_log
          /\ pc' = IF moved THEN [pc EXCEPT ![Head(waiting_senders).task] = "send_woken"]
                   ELSE pc
          /\ ready' = IF moved THEN Append(ready, Head(waiting_senders).task) ELSE ready
    /\ UNCHANGED <<historyVars, metaVars, indexVars, waiting_receivers, consumer, send_closed,
                   recv_closed, receiver_item, pending, err, hcmVars, pipeVars, yielded, closed_mid_stream>>

\* MemoryObjectReceiveStream.receive finds nothing to take while a send stream
\* is open: the consumer registers as a waiting receiver and suspends.
ReceiveWaits ==
    /\ consumer = "busy"
    /\ ~recv_closed
    /\ ~send_closed
    /\ buffer = << >> /\ waiting_senders = << >>
    /\ waiting_receivers' = waiting_receivers + 1
    /\ consumer' = "waiting"
    /\ UNCHANGED <<historyVars, metaVars, indexVars, buffer, waiting_senders, send_closed, recv_closed, receiver_item,
                   loopVars, hcmVars, pipeVars, histVars>>

\* The consumer, suspended in receive(), is resumed: receive() returns the
\* item handed to its receiver, or raises EndOfStream when there is none, and
\* the consumer runs its own code again.
ConsumerWoken ==
    /\ Running(CONSUMER) /\ consumer = "woken"
    /\ consumer' = "busy"
    /\ delivered' = IF receiver_item # NoItem THEN Append(delivered, receiver_item)
                    ELSE delivered
    /\ receiver_item' = NoItem
    /\ ready' = Tail(ready)
    /\ UNCHANGED <<historyVars, metaVars, indexVars, buffer, waiting_senders, waiting_receivers,
                   send_closed, recv_closed, pc, pending, err, hcmVars, pipeVars, yielded,
                   sent_log, closed_mid_stream>>

\* The task of the consumer is cancelled while it is suspended in receive()
\* (the client has gone).  task.cancel() only schedules the task: a consumer
\* that still waits stays in waiting_receivers until the loop runs it, and a
\* consumer that was woken already is in the ready queue and keeps the item
\* handed to its receiver until then.
CancelConsumer ==
    /\ consumer \in {"waiting", "woken"}
    /\ consumer' = "cancelled"
    /\ ready' = IF consumer = "waiting" THEN Append(ready, CONSUMER) ELSE ready
    /\ UNCHANGED <<historyVars, metaVars, indexVars, buffer, waiting_senders, waiting_receivers,
                   receiver_item, send_closed, recv_closed, pc, pending, err, hcmVars,
                   pipeVars, histVars>>

\* Every waiting sender is woken when the receive end is closed
\* (MemoryObjectReceiveStream.close).
SendersWoken ==
    [t \in Tasks |-> IF StillWaiting(t) /\ pc[t] = "send_blocked"
                     THEN "send_woken" ELSE pc[t]]
WaitingSenderTasks == [i \in 1 .. Len(waiting_senders) |-> waiting_senders[i].task]

\* The loop runs the cancelled consumer: receive() unregisters its receiver
\* and ends with the cancellation, so an item handed to the receiver is lost,
\* and the consumer closes its receive end on the way out.
ConsumerCancelled ==
    /\ Running(CONSUMER) /\ consumer = "cancelled"
    /\ consumer' = "closed"
    /\ receiver_item' = NoItem
    /\ waiting_receivers' = 0
    /\ recv_closed' = TRUE
    /\ closed_mid_stream' = (closed_mid_stream \/ InTokenLoop)
    /\ pc' = SendersWoken
    /\ ready' = Tail(ready) \o WaitingSenderTasks
    /\ UNCHANGED <<historyVars, metaVars, indexVars, buffer, waiting_senders, send_closed, pending, err,
                   hcmVars, pipeVars, yielded, sent_log, delivered>>

\* The consumer, running its own code, closes its receive end: every waiting
\* sender is woken.
CloseRecv ==
    /\ consumer = "busy"
    /\ ~recv_closed
    /\ consumer' = "closed"
    /\ recv_closed' = TRUE
    /\ closed_mid_stream' = (closed_mid_stream \/ InTokenLoop)
    /\ pc' = SendersWoken
    /\ ready' = ready \o WaitingSenderTasks
    /\ UNCHANGED <<historyVars, metaVars, indexVars, buffer, waiting_senders, waiting_receivers,
                   receiver_item, send_closed, pending, err, hcmVars, pipeVars, yielded, sent_log, delivered>>

\* The send stream is closed from outside the call (the caller shares
\* send_chan): the waiting receivers are woken.
CloseSend ==
    /\ ~send_closed
    /\ send_closed' = TRUE
    /\ ReceiversAfter("none")
    /\ ready' = ready \o WokenBy("none")
    /\ closed_mid_stream' = (closed_mid_stream \/ InTokenLoop)
    /\ UNCHANGED <<historyVars, metaVars, indexVars, buffer, waiting_senders, recv_closed, receiver_item, pc, pending,
                   err, hcmVars, pipeVars, yielded, sent_log, delivered>>

\* Lines 192-199: the generator yields a token and the loop body handles it.
TokenLoop(toks, most) ==
    \/ TokenArrives(toks, most)
    \/ HcmToken

\* The steps of handle_chat_message, other than the handling of the
\* generator's tokens, and the completions of what it awaits.
HcmRun(doclists, events) ==
    \/ VectorStoreReturns
    \/ VectorStoreRaises
    \/ HcmEngineReturned(doclists, events)
    \/ HcmEngineRaised(doclists, events)
    \/ HcmSendNowait
    \/ HcmSendWoken
    \/ AstreamReturns
    \/ AstreamRaises
    \/ HcmAstreamReturned
    \/ StreamEnds
    \/ GeneratorRaises
    \/ HcmAgentRaised
    \/ HcmAfterLoop

\* The steps of the consumer's task.
ConsumerNext ==
    \/ Receive
    \/ ReceiveWaits
    \/ ConsumerWoken
    \/ ConsumerCancelled

\* The consumer and the owner of the stream.
ChannelNext ==
    \/ CloseSend
    \/ CloseRecv
    \/ CancelConsumer
    \/ ConsumerNext

\* The tasks the callbacks create.
EventTaskNext ==
    \/ \E t \in EventTasks : EventTaskStart(t)
    \/ \E t \in EventTasks : EventSendNowait(t)
    \/ \E t \in EventTasks : EventSendWoken(t)

\* The pipeline's callbacks and the tasks they create.
EventNext(events) ==
    \/ \E e \in EventIds : on_event_start(e, events)
    \/ \E e \in EventIds : on_event_end(e, events)
    \/ EventTaskNext

vars == <<turnVars, historyVars, indexVars, metaVars>>

Init == TurnInit /\ HistoryInit /\ IndexInit /\ MetaInit

\* The conversations of the turns that are not about the index map: one
\* without documents and one with one document; or the latter only.
FewDocLists == {<< >>, <<1>>}
OneDocList == {<<1>>}

\* A whole turn over a store that may have been seeded.
Next ==
    \/ SeedStore
    \/ HcmRun(DocLists, LifecycleEvents)
    \/ TokenLoop(TokenSet, MaxTokens)
    \/ ChannelNext
    \/ EventNext(LifecycleEvents)
Spec == Init /\ [][Next]_vars

\* A turn in which the pipeline reports no events.
StreamNext ==
    \/ HcmRun(FewDocLists, {})
    \/ TokenLoop(TokenSet, MaxTokens)
    \/ ChannelNext
SpecStream == Init /\ [][StreamNext]_vars

\* A turn with events, in which every token is "a".
EventsNext ==
    \/ HcmRun(OneDocList, PlainEvents)
    \/ TokenLoop({<<Char.a>>}, MaxEventTokens)
    \/ ChannelNext
    \/ EventNext(PlainEvents)
SpecEvents == Init /\ [][EventsNext]_vars

\* One step of the event loop: it runs the task at the head of its ready
\* queue (handle_chat_message, an event task or the consumer) up to that
\* task's next suspension point.
FairStep ==
    \/ HcmEngineReturned(OneDocList, PlainEvents)
    \/ HcmEngineRaised(OneDocList, PlainEvents)
    \/ HcmSendNowait
    \/ HcmSendWoken
    \/ HcmAstreamReturned
    \/ HcmAgentRaised
    \/ HcmToken
    \/ HcmAfterLoop
    \/ EventTaskNext
    \/ ConsumerWoken
    \/ ConsumerCancelled

\* The turn with events under fair scheduling of the tasks: the event loop
\* keeps running the tasks of its ready queue, and the pipeline ends every
\* event it has started.  Nothing else is bound to happen: what the turn
\* awaits outside the loop (the vector store, astream_chat, the generator's
\* next token) may never complete, the consumer may stop receiving, and
\* nobody has to close the stream, to cancel the consumer or to start an event.
FairSpecEvents ==
    /\ Init /\ [][EventsNext]_vars
    /\ WF_vars(FairStep)
    /\ \A e \in EventIds : WF_vars(on_event_end(e, PlainEvents))

\* get_chat_history on the message lists of the model.
SpecHistory == Init /\ [][HistoryNext]_vars

\* A turn whose engine is built by build_doc_id_to_index_map over the
\* persisted store; the pipeline reports no events and every token is "a".
BuildTurnNext ==
    \/ SeedStore
    \/ HcmRun(DocLists, {})
    \/ TokenLoop({<<Char.a>>}, MaxEventTokens)
    \/ ChannelNext
SpecBuildTurn == Init /\ [][BuildTurnNext]_vars

\* get_metadata_from_event on the event kinds and payloads of the model.
SpecMetadata == Init /\ [][MetaNext]_vars

\* Calls of build_doc_id_to_index_map as time passes.
SpecIndex == Init /\ [][IndexNext]_vars


(***************************************************************************)
(* Properties                                                              *)
(***************************************************************************)
\* A string of whitespace characters only (the empty string included).
WhitespaceOnly(s) == \A i \in 1 .. Len(s) : s[i] \in Whitespace
IsPrefix(a, b) == Len(a) <= Len(b) /\ SubSeq(b, 1, Len(a)) = a
Snapshots(log) == SelectSeq(log, LAMBDA m : m.site = "snapshot")
Fallbacks(log) == SelectSeq(log, LAMBDA m : m.site = "fallback")
Messages_(log) == SelectSeq(log, LAMBDA m : m.kind = "StreamedMessage")
SendErrors == {"ClosedResourceError", "BrokenResourceError"}
\* The record of event e with the given has_ended is at place i of log.
IsRecord(log, i, e, ended) ==
    /\ log[i].site = "event"
    /\ log[i].event_id = e
    /\ log[i].has_ended = ended
Emitted(log, e, ended) == \E i \in 1 .. Len(log) : IsRecord(log, i, e, ended)

\* C1: once the stream is closed from outside while handle_chat_message is
\* consuming the token stream, the call does not end with an exception of
\* the stream and no further snapshot enters the stream.
C1_ClosureStopsCleanly ==
    [][closed_mid_stream =>
         /\ err'[HCM] \notin SendErrors
         /\ Snapshots(sent_log') = Snapshots(sent_log)]_vars

\* C2: no send on the output stream, at any send site, ends its task with the
\* closed-stream exception: neither handle_chat_message nor an event task.
C2_NoSendRaises == \A t \in Tasks : err[t] \notin SendErrors

\* C3: the k-th snapshot sent is the concatenation of the first k tokens the
\* generator yielded; each snapshot extends the one before it.
C3_SnapshotsAreCumulative ==
    LET snaps == Snapshots(sent_log)
    IN /\ Len(snaps) <= Len(yielded)
       /\ \A k \in 1 .. Len(snaps) :
            /\ snaps[k].kind = "StreamedMessage"
            /\ snaps[k].content = Concat(SubSeq(yielded, 1, k))
       /\ \A k \in 2 .. Len(snaps) :
            /\ IsPrefix(snaps[k - 1].content, snaps[k].content)
            /\ Len(snaps[k - 1].content) <= Len(snaps[k].content)
C3_Witness ==
    LET snaps == Snapshots(sent_log)
    IN /\ Len(snaps) >= 2
       /\ Len(snaps[1].content) < Len(snaps[2].content)

\* C4: the fallback is sent at most once and only after the generator is
\* exhausted with a whitespace-only text, it is then the last StreamedMessage;
\* a call that returns after exhaustion with such a text has sent it, and with
\* any other text the fallback is not sent.
C4_FallbackIffBlank ==
    LET fb == Fallbacks(sent_log)
        msgs == Messages_(sent_log)
        text_so_far == Concat(yielded)
    IN /\ Len(fb) <= 1
       /\ \A i \in 1 .. Len(fb) :
            /\ fb[i].kind = "StreamedMessage"
            /\ fb[i].content = FallbackText
       /\ Len(fb) = 1 =>
            /\ exhausted
            /\ WhitespaceOnly(text_so_far)
            /\ msgs[Len(msgs)].site = "fallback"
       /\ (pc[HCM] = "done" /\ exhausted /\ WhitespaceOnly(text_so_far)) => Len(fb) = 1
       /\ (exhausted /\ ~WhitespaceOnly(text_so_far)) => Len(fb) = 0
C4_Witness ==
    /\ pc[HCM] = "done"
    /\ exhausted
    /\ Len(yielded) >= 1
    /\ Len(Concat(yielded)) >= 1
    /\ Len(Fallbacks(delivered)) = 1
    /\ ~recv_closed


\* C19: in a turn whose generator is exhausted after tokens that concatenate
\* to an empty or whitespace-only text, the consumer has received no
\* StreamedMessage with empty or whitespace-only content.
C19_NoBlankMessageDelivered ==
    (exhausted /\ WhitespaceOnly(Concat(yielded))) =>
      \A i \in 1 .. Len(delivered) :
        delivered[i].kind = "StreamedMessage" => ~WhitespaceOnly(delivered[i].content)

\* C20: the fallback is sent, or its send begun, only after the generator is
\* exhausted; a call that left the loop because it found the send stream
\* closed has returned without error and without the fallback.
ClosedExitTaken == pc[HCM] = "done" /\ ~exhausted
C20_NoFallbackOnClosedExit ==
    /\ ~exhausted =>
         /\ Fallbacks(sent_log) = << >>
         /\ pending[HCM].site # "fallback"
         /\ pc[HCM] # "stream_done"
    /\ ClosedExitTaken =>
         /\ err[HCM] = "none"
         /\ send_closed
C20_Witness ==
    /\ ClosedExitTaken
    /\ yielded # << >>
    /\ WhitespaceOnly(Concat(yielded))
    /\ response_str = Concat(yielded)

\* C6: for every event id, when the record with has_ended = FALSE and the
\* record with has_ended = TRUE have both been delivered, the first was
\* delivered before the second.
C6_StartDeliveredBeforeEnd ==
    \A e \in EventIds :
      \A i, j \in 1 .. Len(delivered) :
        (IsRecord(delivered, i, e, FALSE) /\ IsRecord(delivered, j, e, TRUE)) => i < j
C6_Witness ==
    \E e \in EventIds :
      /\ Emitted(delivered, e, FALSE)
      /\ Emitted(delivered, e, TRUE)

\* C7: under fair scheduling, once the record with has_ended = FALSE of an
\* event has been emitted, eventually the record with has_ended = TRUE of the
\* same event is emitted or the stream is closed.
C7_StartLeadsToEndOrClosed ==
    \A e \in EventIds :
      Emitted(sent_log, e, FALSE)
        ~> (Emitted(sent_log, e, TRUE) \/ send_closed \/ recv_closed)
\* C8: when handle_chat_message has returned or raised, the send stream is
\* closed and no event task created during the call is still in flight.
C8_ReleasedOnReturn ==
    ~HcmActive =>
      /\ send_closed
      /\ \A t \in EventTasks : pc[t] \in {"idle", "done", "raised"}


\* C17: the CONSTRUCTED_QUERY_ENGINE record is sent at most once, with
\* has_ended = TRUE and no metadata; once the user query has been issued to the
\* agent it has been sent exactly once; it precedes every StreamedMessage, on
\* the stream and at the consumer; and every lifecycle callback made after the
\* query was issued finds it already sent.
IsMarker(m) == m.source = "CONSTRUCTED_QUERY_ENGINE"
MarkersIn(log) == {i \in 1 .. Len(log) : IsMarker(log[i])}
MarkerPrecedesMessages(log) ==
    \A j \in 1 .. Len(log) :
      log[j].kind = "StreamedMessage" => \E i \in MarkersIn(log) : i < j
QueryIssued ==
    \/ pc[HCM] \in {"astream", "astream_ok", "agent_err", "stream_done"}
    \/ InTokenLoop
    \/ yielded # << >>
    \/ exhausted
MarkerSentOnceFirst ==
    /\ Cardinality(MarkersIn(sent_log)) <= 1
    /\ \A i \in MarkersIn(sent_log) :
         /\ sent_log[i].kind = "StreamedMessageSubProcess"
         /\ sent_log[i].has_ended
         /\ sent_log[i].metadata_map = NoneMetadata
    /\ QueryIssued => Cardinality(MarkersIn(sent_log)) = 1
    /\ MarkerPrecedesMessages(sent_log)
    /\ MarkerPrecedesMessages(delivered)
CallbackMade == \E t \in EventTasks : pc[t] # "new" /\ pc'[t] = "new"
C17_MarkerFirst ==
    [][/\ MarkerSentOnceFirst'
       /\ (QueryIssued /\ CallbackMade) => MarkersIn(sent_log) # {}]_vars
C17_Witness ==
    \E i, j, k \in 1 .. Len(delivered) :
      /\ i < j /\ i < k
      /\ IsMarker(delivered[i])
      /\ delivered[j].site = "event"
      /\ delivered[k].kind = "StreamedMessage"

\* C18: when a document fetch has failed in the rebuild of
\* build_doc_id_to_index_map, no index map is returned and no tool is built,
\* handle_chat_message does nothing but raise the error, neither the marker
\* nor any StreamedMessage is sent, and once it has raised the send stream is
\* closed.
C18_FetchFailureIsFatal ==
    result.fetch_failed =>
      /\ result.status = "raised"
      /\ result.map = << >>
      /\ ~tools.built
      /\ pc[HCM] = "raised"
      /\ err[HCM] = "EngineError"
      /\ send_closed
      /\ \A i \in 1 .. Len(sent_log) :
           ~IsMarker(sent_log[i]) /\ sent_log[i].kind # "StreamedMessage"
C18_Witness ==
    /\ result.fetch_failed
    /\ pc[HCM] = "raised"
    /\ send_closed
    /\ Len(documents) = 2
    /\ StrId(documents[1]) \in persisted.ids
    /\ StrId(documents[2]) \notin persisted.ids

\* C12: while the stream is open, every lifecycle event whose task has ended
\* has put exactly one record on the stream, with the event's id and
\* has_ended = (the event is an end event), whatever its payload.
RecordsOf(t) ==
    {i \in 1 .. Len(sent_log) : IsRecord(sent_log, i, TaskEvent(t), ~TaskIsStart(t))}
C12_OneRecordPerEvent ==
    \A t \in EventTasks :
      (pc[t] \in Finished /\ ~send_closed /\ ~recv_closed)
        => Cardinality(RecordsOf(t)) = 1

\* C13: a record built for a start event (has_ended = FALSE) carries no
\* metadata map, whatever the event kind and the payload.
C13_NoMetadataOnStart ==
    (md_result.status = "returned" /\ ~md_record.has_ended)
      => md_record.metadata_map = NoneMetadata

\* C14: when the payload carries no response object exposing source nodes (no
\* response entry, or one without source nodes), a SUB_QUESTION event with a
\* sub-question entry yields the question/answer pair, and a FUNCTION_CALL
\* event with a string function output yields the synthesized entry.
C14_FallsThroughWithoutCitations ==
    LET p == md_args.payload
    IN (md_result.status = "returned" /\ p.response.kind \in {"absent", "plain"})
         => /\ (md_args.event_type = "SUB_QUESTION" /\ p.sub_question = "pair")
                 => md_result.map =
                      [key |-> "sub_question",
                       value |-> <<Entry("sub_q.question", "sub_q.answer", << >>)>>]
            /\ (md_args.event_type = "FUNCTION_CALL" /\ p.function_output = "str")
                 => md_result.map =
                      [key |-> "sub_questions",
                       value |-> <<Entry(PlaceholderQuestion, "output", << >>)>>]

\* The citations C16 expects of a list of source nodes: one per node that has
\* both fields and a numeric page label (one or more of the digits "0".."9",
\* read in base ten), in node order.
NumericLabel(l) == l # << >> /\ \A i \in 1 .. Len(l) : l[i] \in 48 .. 57
RECURSIVE Pow10(_)
Pow10(n) == IF n = 0 THEN 1 ELSE 10 * Pow10(n - 1)
RECURSIVE LabelValueFrom(_, _)
LabelValueFrom(l, i) ==
    IF i > Len(l) THEN 0
    ELSE (l[i] - 48) * Pow10(Len(l) - i) + LabelValueFrom(l, i + 1)
\* A numeral of more than nine digits is beyond the integers of the model: it
\* is given -1, which is the value of no numeral.
LabelValue(l) == IF Len(l) <= 9 THEN LabelValueFrom(l, 1) ELSE -1
Citable(node) ==
    /\ node.has_node
    /\ ~node.metadata_none
    /\ "db_document_id" \in node.keys
    /\ "page_label" \in node.keys
    /\ NumericLabel(node.page_label)
First200(t) == [i \in 1 .. (IF Len(t) < 200 THEN Len(t) ELSE 200) |-> t[i]]
ExpectedCitation(node) ==
    [document_id |-> node.db_document_id,
     page_number |-> LabelValue(node.page_label),
     text |-> IF node.text_kind = "str" THEN First200(node.text) ELSE << >>]
ExpectedCitations(nodes) ==
    LET citable == SelectSeq(nodes, Citable)
    IN [i \in 1 .. Len(citable) |-> ExpectedCitation(citable[i])]
FullResponse(p) == ~p.is_none /\ p.response.kind = "full"

\* C15: when the payload carries a response object exposing source nodes from
\* which at least one citation is extracted (the loop over the nodes ends
\* without an error, and a node has both fields, a numeric page label that
\* int() converts, of 4300 digits at most, and a text that can be sliced, or
\* the loop has appended a citation), the metadata
\* is the single synthesized entry (placeholder question, response text, the
\* citations), whatever the event kind and the other entries of the payload.
C15_CitationResponseWins ==
    LET p == md_args.payload
        nodes == p.response.source_nodes
        extracted == ExtractCitations(nodes)
        citable == \E i \in 1 .. Len(nodes) :
                     /\ Len(nodes[i].page_label) <= IntMaxStrDigits
                     /\ Citable(nodes[i])
                     /\ nodes[i].text_kind # "None"
    IN (md_result # NoMetadataResult /\ FullResponse(p) /\ ~extracted.raised
          /\ (citable \/ extracted.citations # << >>))
         => /\ md_result.status = "returned"
            /\ md_result.map.key = "sub_questions"
            /\ Len(md_result.map.value) = 1
            /\ md_result.map.value[1].question = PlaceholderQuestion
            /\ md_result.map.value[1].answer = p.response.response
            /\ md_result.map.value[1].citations # << >>
            /\ md_result.map.value[1].citations = extracted.citations
C15_Witness ==
    /\ FullResponse(md_args.payload)
    /\ md_args.event_type = "SUB_QUESTION"
    /\ md_args.payload.sub_question = "pair"
    /\ md_result.map.key = "sub_questions"
    /\ Len(md_result.map.value[1].citations) >= 1

\* C16: the citations extracted from a list of source nodes are, in node
\* order, one per node that has both fields and a numeric page label (the
\* document id, the page label as an integer, the first 200 characters of the
\* text); the other nodes contribute nothing and raise no error.
C16_CitationsExtracted ==
    LET p == md_args.payload
        expected == ExpectedCitations(p.response.source_nodes)
    IN (md_result # NoMetadataResult /\ FullResponse(p))
         => /\ md_result.status = "returned"
            /\ expected = << >> => md_result.map = EmptyMetadata
            /\ expected # << >> => /\ md_result.map.key = "sub_questions"
                                   /\ md_result.map.value[1].citations = expected

\* C5: when build_doc_id_to_index_map returns, the keys of the mapping are
\* exactly the strings str(doc.id) of the documents it was given.
C5_KeysAreDocumentIds ==
    result.status = "returned" =>
      DOMAIN result.map = {StrId(documents[i]) : i \in 1 .. Len(documents)}
C5_Witness ==
    /\ result.status = "returned"
    /\ result.path = "rebuild"
    /\ Len(documents) = 2
    /\ documents[1] # documents[2]

\* C21: in the mapping build_doc_id_to_index_map returns, on the load path and
\* on the rebuild path, the index under key d has index id d; and the
\* qualitative tool named d retrieves from that index, filtered to document d.
C21_IndexIdsMatchKeys ==
    /\ result.status = "returned" =>
         \A d \in DOMAIN result.map : result.map[d].index_id = d
    /\ tools.built =>
         \A j \in 1 .. Len(tools.qualitative) :
           /\ tools.qualitative[j].index.index_id = tools.qualitative[j].name
           /\ tools.qualitative[j].filter = tools.qualitative[j].name
C21_Witness ==
    /\ result.status = "returned"
    /\ result.path = "load"
    /\ tools.built
    /\ Len(documents) = 2
    /\ documents[1] # documents[2]
    /\ Len(tools.qualitative) = 2

\* C11: when get_chat_engine has built its tool lists, every document of the
\* conversation has exactly one qualitative tool named str(document.id), every
\* qualitative tool is named after a document of the conversation, and with no
\* documents both tool lists are empty.
ToolsNamed(name) ==
    {j \in 1 .. Len(tools.qualitative) : tools.qualitative[j].name = name}
C11_OneToolPerDocument ==
    tools.built =>
      /\ \A i \in 1 .. Len(documents) :
           Cardinality(ToolsNamed(StrId(documents[i]))) = 1
      /\ \A j \in 1 .. Len(tools.qualitative) :
           \E i \in 1 .. Len(documents) :
             tools.qualitative[j].name = StrId(documents[i])
      /\ documents = << >> =>
           (tools.qualitative = << >> /\ tools.quantitative = << >>)
C11_Witness ==
    /\ tools.built
    /\ Len(documents) = 2
    /\ documents[1] = documents[2]
    /\ Len(tools.qualitative) = 1
    /\ Len(tools.quantitative) = 2

\* C9 as claimed: get_chat_history gives the same output on every permutation
\* of its input.
Perms(seq) ==
    {[i \in 1 .. Len(seq) |-> seq[f[i]]] : f \in Permutations(1 .. Len(seq))}
C9_PermutationInvariant ==
    history_called =>
      \A p \in Perms(chat_messages) : get_chat_history(p) = chat_history

\* C9 as amended: the output is the same on every permutation of an input
\* whose successful non-blank messages have pairwise distinct created_at; the
\* messages kept are in ascending created_at order, are all successful and
\* non-blank, and hold every successful non-blank message of the input as often
\* as the input does; the output is their (content, role) image, in that order.
SuccessfulNonBlank(m) == m.status = "SUCCESS" /\ ~WhitespaceOnly(m.content)
Count(seq, m) == Cardinality({i \in 1 .. Len(seq) : seq[i] = m})
DistinctStamps(seq) ==
    \A i, j \in 1 .. Len(seq) :
      (i # j /\ SuccessfulNonBlank(seq[i]) /\ SuccessfulNonBlank(seq[j]))
        => seq[i].created_at # seq[j].created_at
C9_HistoryFilteredAndSorted ==
    history_called =>
      /\ DistinctStamps(chat_messages) =>
           \A p \in Perms(chat_messages) : get_chat_history(p) = chat_history
      /\ \A i \in 1 .. Len(kept_messages) - 1 :
           kept_messages[i].created_at <= kept_messages[i + 1].created_at
      /\ \A i \in 1 .. Len(kept_messages) : SuccessfulNonBlank(kept_messages[i])
      /\ \A m \in Messages :
           Count(kept_messages, m) =
             IF SuccessfulNonBlank(m) THEN Count(chat_messages, m) ELSE 0
      /\ Len(chat_history) = Len(kept_messages)
      /\ \A i \in 1 .. Len(kept_messages) :
           /\ chat_history[i].content = kept_messages[i].content
           /\ chat_history[i].role =
                (IF kept_messages[i].role = "assistant" THEN "ASSISTANT" ELSE "USER")
C9_Witness ==
    /\ history_called
    /\ Len(chat_messages) = 2
    /\ Len(chat_history) = 2
    /\ chat_messages[1].created_at > chat_messages[2].created_at

\* C10 as claimed: no two StorageContext objects are constructed within the
\* same 5 minutes.
C10_OneConstructionPerWindow == Len(recent_ctx) <= 1

\* C10 as amended: no two StorageContext objects are constructed by
\* get_storage_context less than 5 minutes (300 s) apart.
ByCachedLoader(log) == SelectSeq(log, LAMBDA c : c.by = "get_storage_context")
C10_CachedLoaderOncePerWindow == Len(ByCachedLoader(recent_ctx)) <= 1
C10_Witness ==
    /\ calls >= 2
    /\ result.hit
    /\ result.path = "load"
    /\ now > 0
    /\ Len(ByCachedLoader(recent_ctx)) = 1

====
